---- MODULE Spec2Model ----
(***************************************************************************)
(* Model of do_inference, the asynchronous frame-display driver of the     *)
(* notebook 110-ct-segmentation-quantize, together with the asynchronous   *)
(* pipeline (CTAsyncPipeline) it polls.                                    *)
(*                                                                         *)
(* The driver is a single thread; every line of do_inference that talks to *)
(* the pipeline is one step, and the pipeline's completion callback runs   *)
(* concurrently and may fire between any two steps.                        *)
(*                                                                         *)
(* Python indexes imagelist from 0, TLA+ sequences from 1: imagelist[i] of *)
(* the notebook is imagelist[i + 1] here.  Frame ids keep their Python     *)
(* values (0, 1, 2, ...).                                                  *)
(***************************************************************************)
EXTENDS Integers, Sequences, FiniteSets, TLC

\* Longest imagelist explored.
MaxLen == 6
\* Largest number of infer requests of the pipeline explored.
MaxCap == 3
\* The images are opaque; two distinct payloads tell a frame from another.
Payloads == {"A", "B"}
\* The image lists explored: every length up to MaxLen, consecutive frames
\* differing (so that a frame shown or submitted out of place is seen).
ImageLists ==
    {il \in UNION {[1..n -> Payloads] : n \in 0..MaxLen} :
        \A i \in 1..(Len(il) - 1) : il[i] # il[i + 1]}

VARIABLES
    imagelist,                  \* parameter of do_inference
    capacity,                   \* number of infer requests of the pipeline
    pc,                         \* position of the driver in do_inference
    next_frame_id,              \* local of do_inference
    next_frame_id_to_show,      \* local of do_inference
    inflight,                   \* requests handed to the engine, not finished
    completed_request_results,  \* finished results not yet fetched
    shown,                      \* history: results passed to showarray
    submitted,                  \* history: arguments of the submit_data calls
    completion_order,           \* history: ids in the order the engine finished
    cancelled,                  \* an external cancellation request is pending
    metric,                     \* the BinaryF1 object: its counters
    fresh,                      \* a BinaryF1 object constructed at the last reset
    kits                        \* the KitsDataset object and its arguments

vars == <<imagelist, capacity, pc, next_frame_id, next_frame_id_to_show,
          inflight, completed_request_results, shown, submitted,
          completion_order, cancelled, metric, fresh, kits>>

\* The state of do_inference and its pipeline.
drivervars == <<imagelist, capacity, pc, next_frame_id, next_frame_id_to_show,
                inflight, completed_request_results, shown, submitted,
                completion_order, cancelled>>

\* Python's None, returned by get_result when the id has not completed.
None == [id |-> -1, frame |-> "none"]

\* ---------------------------------------------------------------------
\* The pipeline (engine) interface
\* ---------------------------------------------------------------------

\* Engine.has_capacity: a request slot is free.
is_ready == Cardinality(inflight) < capacity

\* A completed result is waiting to be fetched.
has_completed_request == completed_request_results # {}

\* The completed result for id, or None.
get_result(id) ==
    IF \E r \in completed_request_results : r.id = id
    THEN CHOOSE r \in completed_request_results : r.id = id
    ELSE None

\* The completed results left after get_result(id): the entry is popped.
pop_result(id) == {r \in completed_request_results : r.id # id}

\* await_any returns once a request slot has been freed by a completion.
await_any_returns == is_ready

\* await_all returns once every request has finished.
await_all_returns == inflight = {}

\* The engine finishes one in-flight request, in any order.
EngineComplete ==
    \E r \in inflight :
        /\ inflight' = inflight \ {r}
        /\ completed_request_results' = completed_request_results \cup {r}
        /\ completion_order' = Append(completion_order, r.id)
        /\ UNCHANGED <<imagelist, capacity, pc, next_frame_id,
                       next_frame_id_to_show, shown, submitted, cancelled, metric, fresh, kits>>

\* ---------------------------------------------------------------------
\* BinaryF1
\* ---------------------------------------------------------------------

\* Pixels of an image explored.
NPix == 2
\* Largest value of the counters y_true and y_pred explored.
MaxCount == 4
\* Raw network outputs of a pixel explored: below, at and above the
\* threshold of the sigmoid.
Logits == {-1, 0, 1}

\* The segmentation masks: binary labels per pixel.
Targets == [1..NPix -> {0, 1}]
\* The raw model outputs per pixel.
Outputs == [1..NPix -> Logits]

RECURSIVE SumSeq(_)
\* np.sum of an array.
SumSeq(a) == IF a = <<>> THEN 0 ELSE a[1] + SumSeq(Tail(a))

\* `sigmoid(output[0]).round().astype(np.byte)`: sigmoid(x) > 0.5 iff x > 0,
\* and round() takes 0.5 itself to 0.
Prediction(output) == [i \in DOMAIN output |-> IF output[i] > 0 THEN 1 ELSE 0]

\* `(label == prediction).astype(np.byte) * (label == 1).astype(np.byte)`,
\* summed.
CorrectTrueAll(label, prediction) ==
    SumSeq([i \in DOMAIN label |-> IF label[i] = prediction[i] THEN 1 ELSE 0])
CorrectTrue(label, prediction) ==
    SumSeq([i \in DOMAIN label |->
               (IF label[i] = prediction[i] THEN 1 ELSE 0)
                   * (IF label[i] = 1 THEN 1 ELSE 0)])

\* The counters set by __init__.  `numpy` tells Python ints (FALSE) from the
\* numpy scalars the counters become with the first update.
InitCounters ==
    [y_true |-> 0, y_pred |-> 0, correct_true |-> 0, numpy |-> FALSE]

\* The counters set by reset.
ResetCountersForgot(m) ==
    [y_true |-> 0, y_pred |-> 0, correct_true |-> m.correct_true,
     numpy |-> m.numpy]
ResetCounters(m) ==
    [y_true |-> 0, y_pred |-> 0, correct_true |-> 0, numpy |-> FALSE]

\* The counters after update(output, target).
update(m, output, target) ==
    LET label == target
        prediction == Prediction(output)
    IN [y_true |-> m.y_true + SumSeq(label),
        y_pred |-> m.y_pred + SumSeq(prediction),
        correct_true |-> m.correct_true + CorrectTrue(label, prediction),
        numpy |-> TRUE]

\* Exact fractions <<numerator, denominator>> stand for the floats.
FracMul(a, b) == <<a[1] * b[1], a[2] * b[2]>>
FracAdd(a, b) == <<a[1] * b[2] + b[1] * a[2], a[2] * b[2]>>
FracDiv(a, b) == <<a[1] * b[2], a[2] * b[1]>>

\* What a division by zero does: Python ints raise ZeroDivisionError, numpy
\* scalars give nan (0/0) with a RuntimeWarning.
DivByZero(m) == IF m.numpy THEN "nan" ELSE "ZeroDivisionError"

\* avg_value: the F1 value, or the outcome of the division by zero.
avg_value(m) ==
    IF m.y_pred = 0 \/ m.y_true = 0
    THEN [error |-> DivByZero(m), f1 |-> <<0, 1>>]
    ELSE LET recall == <<m.correct_true, m.y_pred>>
             precision == <<m.correct_true, m.y_true>>
             sum == FracAdd(precision, recall)
         IN IF sum[1] = 0
            THEN [error |-> DivByZero(m), f1 |-> <<0, 1>>]
            ELSE [error |-> "none",
                  f1 |-> FracDiv(FracMul(<<2, 1>>, FracMul(precision, recall)),
                                 sum)]

\* No BinaryF1 object.
NoMetric ==
    [y_true |-> -1, y_pred |-> -1, correct_true |-> -1, numpy |-> FALSE]

\* No reset has been called yet.
NoFresh == [counters |-> NoMetric, before |-> NoMetric]

\* `metric.update(output, target)`; the object constructed at the last reset
\* gets the same update.
F1Update ==
    \E output \in Outputs, target \in Targets :
        /\ update(metric, output, target).y_true <= MaxCount
        /\ update(metric, output, target).y_pred <= MaxCount
        /\ metric' = update(metric, output, target)
        /\ fresh' = IF fresh = NoFresh
                    THEN fresh
                    ELSE [fresh EXCEPT !.counters = update(@, output, target)]
        /\ UNCHANGED <<drivervars, kits>>

\* `metric.reset()`; a new BinaryF1 is constructed next to it, and the
\* counters the metric had before the reset are remembered.
F1Reset ==
    /\ metric' = ResetCounters(metric)
    /\ fresh' = [counters |-> InitCounters, before |-> metric]
    /\ UNCHANGED <<drivervars, kits>>

\* ---------------------------------------------------------------------
\* KitsDataset
\* ---------------------------------------------------------------------

\* Slices per case explored.
MaxSlice == 2
\* Cases explored: 11 and 15 are validation patients, 10 and 12 are not.
KitsCases == {10, 11, 12, 15}

\* `self.valpatients`
valpatients == {11, 15, 16, 49, 50, 79, 81, 89, 106, 108, 112, 126, 129, 133,
                141, 166, 169, 170, 192, 202, 204}

\* The mask files that can exist under basedir.
MaskFiles == [case : KitsCases, slice : 1..MaxSlice]

\* The order of the paths case_<case>/segmentation_frames/<slice>.png.
PathKey(f) == f.case * (MaxSlice + 1) + f.slice

RECURSIVE sorted(_)
\* `sorted(glob.glob(...))` of a set of mask files.
sorted(S) ==
    IF S = {} THEN <<>>
    ELSE LET first == CHOOSE f \in S : \A g \in S : PathKey(f) <= PathKey(g)
         IN <<first>> \o sorted(S \ {first})

\* The elements of a sequence kept by a list comprehension.
RECURSIVE Filter(_, _)
Filter(seq, keep) ==
    IF seq = <<>> THEN <<>>
    ELSE (IF seq[1].case \in keep THEN <<seq[1]>> ELSE <<>>)
             \o Filter(Tail(seq), keep)

\* The orders random.shuffle can leave a list in.
Shuffles(seq) ==
    {p \in [1..Len(seq) -> 1..Len(seq)] :
        \A i, j \in 1..Len(seq) : i # j => p[i] # p[j]}

\* The arguments dataset_type explored.
DatasetTypes == {"train", "val", "test"}

\* The object before __init__ has run.
KitsNew(files, dataset_type) ==
    [files |-> files, dataset_type_arg |-> dataset_type, state |-> "new",
     attrs |-> {}, dataset |-> <<>>]

\* KitsDataset.__init__ on the object o; order is the outcome of the shuffle.
KitsDatasetInitSwapped(o, order) ==
    LET allmasks == sorted(o.files) IN
    IF o.dataset_type_arg \notin {"train", "val"}
    THEN [o EXCEPT !.state = "ValueError_split", !.attrs = {"valpatients"}]
    ELSE IF Len(allmasks) = 0
    THEN [o EXCEPT !.state = "ValueError_no_data", !.attrs = {"valpatients"}]
    ELSE [o EXCEPT !.state = "constructed",
                   !.attrs = {"valpatients", "basedir", "dataset_type",
                              "dataset", "transforms"},
                   !.dataset = allmasks]
KitsDatasetInit(o, order) ==
    LET allmasks == sorted(o.files) IN
    IF Len(allmasks) = 0
    THEN [o EXCEPT !.state = "ValueError_no_data"]
    ELSE IF o.dataset_type_arg = "train"
    THEN LET masks == Filter(allmasks, KitsCases \ valpatients)
         IN [o EXCEPT !.state = "constructed",
                      !.attrs = {"valpatients", "basedir", "dataset_type",
                                 "dataset", "transforms"},
                      !.dataset = [i \in 1..Len(masks) |-> masks[order[i]]]]
    ELSE IF o.dataset_type_arg = "val"
    THEN [o EXCEPT !.state = "constructed",
                   !.attrs = {"valpatients", "basedir", "dataset_type",
                              "dataset", "transforms"},
                   !.dataset = Filter(allmasks, valpatients)]
    ELSE [o EXCEPT !.state = "ValueError_split", !.attrs = {"valpatients"}]

\* `KitsDataset(basedir, dataset_type)`
KitsConstruct ==
    /\ kits.state = "new"
    /\ \E order \in Shuffles(Filter(sorted(kits.files), KitsCases \ valpatients)) :
           kits' = KitsDatasetInit(kits, order)
    /\ UNCHANGED <<drivervars, metric, fresh>>

\* ---------------------------------------------------------------------
\* do_inference
\* ---------------------------------------------------------------------

\* `while next_frame_id < len(imagelist) - 1`
LoopCondNe == next_frame_id # Len(imagelist) - 1
LoopCondCancellable == ~cancelled /\ next_frame_id < Len(imagelist) - 1
LoopCond == next_frame_id < Len(imagelist) - 1

\* The id asked of get_result.
RequestedIdNewest == next_frame_id - 1
RequestedId == next_frame_id_to_show

\* `if results: ... next_frame_id_to_show += 1`
NextToShowUnindented(results) == next_frame_id_to_show + 1
NextToShowForgot(results) == next_frame_id_to_show
NextToShow(results) ==
    IF results # None THEN next_frame_id_to_show + 1 ELSE next_frame_id_to_show

\* `if pipeline.is_ready(): ... else: pipeline.await_any()`
ReadyBranchAlways == "submit"
ReadyBranchHeadOfLine ==
    IF is_ready /\ next_frame_id = next_frame_id_to_show THEN "submit" ELSE "await"
ReadyBranchInverted == IF is_ready THEN "await" ELSE "submit"
ReadyBranch == IF is_ready THEN "submit" ELSE "await"

\* `id=next_frame_id` of the submit_data call.
SubmitIdToShow == next_frame_id_to_show
SubmitId == next_frame_id

\* The frame count of the summary line: `{next_frame_id+1} frames`.
ReportedFrames == next_frame_id + 1

\* `results = pipeline.get_result(next_frame_id_to_show)` and the display of
\* the result when there is one.
FetchAndShow ==
    LET results == get_result(RequestedId) IN
    /\ completed_request_results' = pop_result(RequestedId)
    /\ shown' = IF results # None THEN Append(shown, results) ELSE shown
    /\ next_frame_id_to_show' = NextToShow(results)

Init ==
    /\ imagelist \in ImageLists
    /\ capacity \in 1..MaxCap
    /\ pc = "loop"
    /\ next_frame_id = 0
    /\ next_frame_id_to_show = 0
    /\ inflight = {}
    /\ completed_request_results = {}
    /\ shown = <<>>
    /\ submitted = <<>>
    /\ completion_order = <<>>
    /\ cancelled = FALSE
    /\ metric = InitCounters
    /\ fresh = NoFresh
    /\ kits = KitsNew({}, "val")

\* The test of the submission loop.
LoopTest ==
    /\ pc = "loop"
    /\ pc' = IF LoopCond THEN "get" ELSE "await_all"
    /\ UNCHANGED <<imagelist, capacity, next_frame_id, next_frame_id_to_show,
                   inflight, completed_request_results, shown, submitted,
                   completion_order, cancelled, metric, fresh, kits>>

\* Show the next result if it has arrived.
GetResult ==
    /\ pc = "get"
    /\ FetchAndShow
    /\ pc' = "ready"
    /\ UNCHANGED <<imagelist, capacity, next_frame_id, inflight, submitted,
                   completion_order, cancelled, metric, fresh, kits>>

\* The readiness check.
CheckReady ==
    /\ pc = "ready"
    /\ pc' = ReadyBranch
    /\ UNCHANGED <<imagelist, capacity, next_frame_id, next_frame_id_to_show,
                   inflight, completed_request_results, shown, submitted,
                   completion_order, cancelled, metric, fresh, kits>>

\* Submit the next image.  Indexing past the end of imagelist raises
\* IndexError; submitting with no free request raises in the pipeline.
SubmitData ==
    /\ pc = "submit"
    /\ IF next_frame_id >= Len(imagelist) \/ ~is_ready
       THEN /\ pc' = "error"
            /\ UNCHANGED <<next_frame_id, inflight, submitted>>
       ELSE LET image == imagelist[next_frame_id + 1]
                req == [id |-> SubmitId, frame |-> image]
            IN /\ inflight' = inflight \cup {req}
               /\ submitted' = Append(submitted, req)
               /\ next_frame_id' = next_frame_id + 1
               /\ pc' = "loop"
    /\ UNCHANGED <<imagelist, capacity, next_frame_id_to_show,
                   completed_request_results, shown, completion_order, cancelled, metric, fresh, kits>>

\* The blocking wait of the submission loop.
AwaitAny ==
    /\ pc = "await"
    /\ await_any_returns
    /\ pc' = "loop"
    /\ UNCHANGED <<imagelist, capacity, next_frame_id, next_frame_id_to_show,
                   inflight, completed_request_results, shown, submitted,
                   completion_order, cancelled, metric, fresh, kits>>

\* `pipeline.await_all()`
AwaitAllSkipped ==
    /\ pc = "await_all"
    /\ pc' = "drain"
    /\ UNCHANGED <<imagelist, capacity, next_frame_id, next_frame_id_to_show,
                   inflight, completed_request_results, shown, submitted,
                   completion_order, cancelled, metric, fresh, kits>>
AwaitAll ==
    /\ pc = "await_all"
    /\ await_all_returns
    /\ pc' = "drain"
    /\ UNCHANGED <<imagelist, capacity, next_frame_id, next_frame_id_to_show,
                   inflight, completed_request_results, shown, submitted,
                   completion_order, cancelled, metric, fresh, kits>>

\* The test of the final loop.
DrainTest ==
    /\ pc = "drain"
    /\ pc' = IF has_completed_request THEN "drain_get" ELSE "done"
    /\ UNCHANGED <<imagelist, capacity, next_frame_id, next_frame_id_to_show,
                   inflight, completed_request_results, shown, submitted,
                   completion_order, cancelled, metric, fresh, kits>>

\* The body of the final loop.
DrainGetResultAwaits ==
    /\ pc = "drain_get"
    /\ FetchAndShow
    /\ pc' = "await_all"
    /\ UNCHANGED <<imagelist, capacity, next_frame_id, inflight, submitted,
                   completion_order, cancelled, metric, fresh, kits>>
DrainGetResult ==
    /\ pc = "drain_get"
    /\ FetchAndShow
    /\ pc' = "drain"
    /\ UNCHANGED <<imagelist, capacity, next_frame_id, inflight, submitted,
                   completion_order, cancelled, metric, fresh, kits>>

\* ---------------------------------------------------------------------
\* Misbehaviour of the surroundings
\* ---------------------------------------------------------------------

\* The positions at which do_inference is inside a call of the pipeline that
\* can raise: get_result, submit_data, await_any, await_all.
EngineCalls == {"get", "submit", "await", "await_all", "drain_get"}

\* do_inference has no try/except: an exception raised inside a pipeline call
\* leaves the function at that call.
RaisedAtRetry(call) == "loop"
RaisedAt(call) == IF call = "submit" THEN "raised_submit" ELSE "raised_poll"

\* The positions in which do_inference has been left by an exception.
Stopped == {"error", "raised_submit", "raised_poll"}

\* The engine raises EngineError inside the pipeline call the driver is in.
EngineError ==
    /\ pc \in EngineCalls
    /\ pc' = RaisedAt(pc)
    /\ UNCHANGED <<imagelist, capacity, next_frame_id, next_frame_id_to_show,
                   inflight, completed_request_results, shown, submitted,
                   completion_order, cancelled, metric, fresh, kits>>

\* A completion the engine must not report: for an id that was never
\* submitted, or for an id whose completion it has reported before.
Bogus(id) ==
    \/ \A k \in 1..Len(submitted) : submitted[k].id # id
    \/ \E k \in 1..Len(completion_order) : completion_order[k] = id

\* The engine has reported a bogus completion: it has reported more
\* completions than requests have finished.
BogusReported ==
    Len(completion_order) > Len(submitted) - Cardinality(inflight)

\* The engine breaks its contract and reports a bogus completion (once in a
\* run); the pipeline stores it under its id like any other.
EngineBogus ==
    /\ ~BogusReported
    /\ pc \notin {"done"} \cup Stopped
    /\ \E id \in 0..MaxLen :
        /\ Bogus(id)
        /\ completed_request_results' =
               pop_result(id) \cup {[id |-> id, frame |-> "bogus"]}
        /\ completion_order' = Append(completion_order, id)
    /\ UNCHANGED <<imagelist, capacity, pc, next_frame_id,
                   next_frame_id_to_show, inflight, shown, submitted,
                   cancelled, metric, fresh, kits>>

\* The caller asks for cancellation.
CancelRequested ==
    /\ ~cancelled
    /\ pc \notin {"done"} \cup Stopped
    /\ cancelled' = TRUE
    /\ UNCHANGED <<imagelist, capacity, pc, next_frame_id,
                   next_frame_id_to_show, inflight, completed_request_results,
                   shown, submitted, completion_order, metric, fresh, kits>>

Driver ==
    \/ LoopTest
    \/ GetResult
    \/ CheckReady
    \/ SubmitData
    \/ AwaitAny
    \/ AwaitAll
    \/ DrainTest
    \/ DrainGetResult

Next ==
    \/ LoopTest
    \/ GetResult
    \/ CheckReady
    \/ SubmitData
    \/ AwaitAny
    \/ AwaitAll
    \/ DrainTest
    \/ DrainGetResult
    \/ EngineComplete

Spec == Init /\ [][Next]_vars

\* The driver thread keeps running and the engine finishes every request.
LiveSpec == Spec /\ WF_vars(Driver) /\ WF_vars(EngineComplete)

NextErr == Next \/ EngineError

\* do_inference on an engine that may raise.
ErrSpec == Init /\ [][NextErr]_vars

NextBogus == Next \/ EngineBogus

\* do_inference on an engine that may report bogus completions.
BogusSpec == Init /\ [][NextBogus]_vars

NextCancel == Next \/ CancelRequested

\* do_inference with a caller that may ask for cancellation.
CancelSpec == Init /\ [][NextCancel]_vars

\* do_inference is not running.
DriverIdle ==
    /\ imagelist = <<>>
    /\ capacity = 1
    /\ pc = "done"
    /\ next_frame_id = 0
    /\ next_frame_id_to_show = 0
    /\ inflight = {}
    /\ completed_request_results = {}
    /\ shown = <<>>
    /\ submitted = <<>>
    /\ completion_order = <<>>
    /\ cancelled = FALSE

\* A BinaryF1 right after __init__.
F1Init ==
    /\ DriverIdle
    /\ metric = InitCounters
    /\ fresh = NoFresh
    /\ kits = KitsNew({}, "val")

F1Next == F1Update \/ F1Reset

\* A BinaryF1 under any sequence of update and reset calls.
F1Spec == F1Init /\ [][F1Next]_vars

\* A KitsDataset about to be constructed, for every content of basedir and
\* every dataset_type.
KitsInit ==
    /\ DriverIdle
    /\ metric = InitCounters
    /\ fresh = NoFresh
    /\ \E files \in SUBSET MaskFiles, dataset_type \in DatasetTypes :
           kits = KitsNew(files, dataset_type)

KitsNext == KitsConstruct

\* The construction of a KitsDataset.
KitsSpec == KitsInit /\ [][KitsNext]_vars

TypeOK ==
    /\ imagelist \in ImageLists
    /\ capacity \in 1..MaxCap
    /\ pc \in {"loop", "get", "ready", "submit", "await", "await_all",
               "drain", "drain_get", "done", "error", "raised_submit",
               "raised_poll"}
    /\ next_frame_id \in 0..MaxLen
    /\ next_frame_id_to_show \in 0..MaxLen + 1
    /\ cancelled \in BOOLEAN

\* ---------------------------------------------------------------------
\* Properties
\* ---------------------------------------------------------------------

\* Submitted but not yet shown.
Outstanding == next_frame_id - next_frame_id_to_show

\* The engine finished two requests in the opposite order of their ids.
OutOfOrderCompletion ==
    \E i, j \in 1..Len(completion_order) :
        i < j /\ completion_order[i] > completion_order[j]

\* C1 - Order preservation: whatever order the engine completes requests in,
\* the k-th result shown is the result of frame id k-1, computed from the
\* k-th image of imagelist; no result is shown before its predecessor.
OrderPreservation ==
    \A k \in 1..Len(shown) :
        shown[k].id = k - 1 /\ shown[k].frame = imagelist[k]

\* A finished run that showed several results although the engine finished
\* them out of order.
OrderPreservationWitness ==
    pc = "done" /\ Len(shown) >= 3 /\ OutOfOrderCompletion

\* C2 - Completeness: when do_inference returns on a non-empty imagelist,
\* every input has been submitted and shown exactly once, and
\* next_frame_id_to_show = len(imagelist).
Completeness ==
    (pc = "done" /\ Len(imagelist) >= 1) =>
        /\ Len(submitted) = Len(imagelist)
        /\ Len(shown) = Len(imagelist)
        /\ next_frame_id_to_show = Len(imagelist)

\* C3 - In-flight capacity bound: at most `capacity` requests are in flight,
\* and submit_data is only reached with a free request slot, so it never
\* fails for lack of one.
InFlightBound ==
    /\ Cardinality(inflight) <= capacity
    /\ pc = "submit" => is_ready
    /\ pc # "error"

\* The engine is full and the driver has been sent to the blocking wait.
InFlightBoundWitness ==
    pc = "await" /\ Cardinality(inflight) = capacity /\ Len(submitted) >= 2

\* C4 (as stated) - Outstanding bound: submitted-but-not-shown requests never
\* exceed `capacity`.
OutstandingBound == Outstanding <= capacity

\* C4 (amended) - the outstanding requests are the in-flight requests plus
\* the completed results not yet shown; only the in-flight part is bounded by
\* `capacity`.
OutstandingSplit ==
    /\ Outstanding - Cardinality(completed_request_results)
           = Cardinality(inflight)
    /\ Outstanding - Cardinality(completed_request_results) <= capacity

\* More requests outstanding than the engine has slots.
OutstandingSplitWitness ==
    /\ Outstanding > capacity
    /\ Cardinality(completed_request_results) >= 2

\* C5 - Termination: if the engine completes every request, do_inference
\* returns, and when it returns every submitted request has been shown and
\* the pipeline holds no completed result.
Termination ==
    /\ <>(pc = "done")
    /\ [](pc = "done" =>
            /\ next_frame_id_to_show = next_frame_id
            /\ Len(shown) = Len(submitted)
            /\ completed_request_results = {}
            /\ inflight = {})

\* A run that returned after showing results.
TerminationWitness == pc = "done" /\ Len(shown) >= 2 /\ capacity = 1

\* C6 (as stated) - Empty input is rejected: with an empty imagelist the
\* driver stops with an error at once and does not run to completion.
EmptyInputRejected ==
    (Len(imagelist) = 0 /\ pc # "loop") => pc = "error"

\* C6 (amended) - with an empty imagelist do_inference raises nothing: it
\* skips the submission loop, calls await_all and returns having submitted and
\* shown nothing.
EmptyInputCompletes ==
    Len(imagelist) = 0 =>
        /\ pc \in {"loop", "await_all", "drain", "done"}
        /\ submitted = <<>>
        /\ shown = <<>>
        /\ next_frame_id = 0
        /\ next_frame_id_to_show = 0

\* The run on an empty imagelist has returned.
EmptyInputCompletesWitness == Len(imagelist) = 0 /\ pc = "done"

\* C7 - PendingSet invariant: every completed result still held has an id
\* >= next_frame_id_to_show, and no result that was shown is still held.
PendingSetInv ==
    /\ \A r \in completed_request_results : r.id >= next_frame_id_to_show
    /\ \A k \in 1..Len(shown) :
           \A r \in completed_request_results : r.id # shown[k].id

\* Results have been shown and a later result is being held out of order.
PendingSetInvWitness ==
    /\ Len(shown) >= 1
    /\ \E r \in completed_request_results : r.id > next_frame_id_to_show
    /\ get_result(next_frame_id_to_show) = None

\* C8 - submitted-but-not-shown requests number at most `capacity` plus the
\* number of completed results held.
OutstandingWithinCapacityPlusPending ==
    Outstanding <= capacity + Cardinality(completed_request_results)

\* The bound is met with results held.
OutstandingWithinCapacityPlusPendingWitness ==
    /\ Outstanding = capacity + Cardinality(completed_request_results)
    /\ Cardinality(completed_request_results) >= 1

\* C9 - Submission order: the k-th submit_data call carries id k-1 and the
\* k-th image of imagelist; no id is submitted twice or skipped.
SubmissionOrder ==
    /\ Len(submitted) = next_frame_id
    /\ \A k \in 1..Len(submitted) :
           submitted[k].id = k - 1 /\ submitted[k].frame = imagelist[k]

\* Several submissions happened while earlier results were still outstanding.
SubmissionOrderWitness ==
    Len(submitted) >= 3 /\ next_frame_id_to_show = 0 /\ OutOfOrderCompletion

\* C10 - Eager submission: a readiness check that finds a free request slot
\* is followed by the submission of the next image, whether or not the
\* result for next_frame_id_to_show has arrived.
EagerSubmission ==
    /\ [][(pc = "ready" /\ pc' # pc /\ is_ready) => pc' = "submit"]_vars
    /\ [][(pc = "submit" /\ pc' # pc) =>
              /\ Len(submitted') = Len(submitted) + 1
              /\ submitted'[Len(submitted')].id = next_frame_id
              /\ next_frame_id' = next_frame_id + 1]_vars

\* About to submit while the head-of-line result has not arrived although a
\* later one has.
EagerSubmissionWitness ==
    /\ pc = "submit"
    /\ Outstanding >= 1
    /\ get_result(next_frame_id_to_show) = None
    /\ has_completed_request

\* The result for next_frame_id_to_show is in the completed set.
HeadReady == get_result(next_frame_id_to_show) # None

\* C11 - Suspension point: the driver goes to the blocking wait only when no
\* request slot is free and the result for next_frame_id_to_show is not in
\* the completed set.
SuspensionPoint ==
    [][((pc = "ready" /\ pc' = "await") => (~is_ready /\ ~HeadReady))]_vars

LargeCapacity ==
    capacity >= Len(imagelist) - 1 =>
        /\ pc # "await"
        /\ \A k \in 1..Len(shown) : shown[k] = submitted[k]
        /\ pc = "done" => Len(shown) = Len(submitted)

\* A run with enough slots has returned although the engine finished the
\* requests out of order.
LargeCapacityWitness ==
    /\ capacity >= Len(imagelist) - 1
    /\ pc = "done"
    /\ Len(submitted) >= 3
    /\ completion_order[1] = 2

\* C14 - DeliveryCursor discipline: next_frame_id_to_show grows by exactly
\* one with each result shown and is changed by no other step.
CursorDiscipline ==
    [][(\/ /\ Len(shown') = Len(shown) + 1
          /\ next_frame_id_to_show' = next_frame_id_to_show + 1
       \/ /\ shown' = shown
          /\ next_frame_id_to_show' = next_frame_id_to_show)]_vars

\* Results have been shown and a fetch has just come back empty.
CursorDisciplineWitness ==
    /\ pc = "ready"
    /\ next_frame_id_to_show >= 2
    /\ next_frame_id > next_frame_id_to_show
    /\ ~HeadReady

\* C15 - Error propagation without retry: a pipeline call that raises takes
\* the driver out of do_inference at that call; after that the driver
\* submits, fetches and shows nothing more, and the failed item is not
\* submitted again.
ErrorPropagation ==
    /\ [][((pc = "submit" /\ pc' # pc) =>
              \/ /\ pc' = "loop"
                 /\ Len(submitted') = Len(submitted) + 1
              \/ /\ pc' \in Stopped
                 /\ submitted' = submitted)]_vars
    /\ [][((pc \in EngineCalls /\ pc' # pc) =>
              pc' \in {"ready", "loop", "drain"} \cup Stopped)]_vars
    /\ [][(pc \in Stopped =>
              /\ pc' = pc
              /\ submitted' = submitted
              /\ shown' = shown
              /\ next_frame_id' = next_frame_id
              /\ next_frame_id_to_show' = next_frame_id_to_show)]_vars

\* A submission raised while earlier requests were outstanding.
ErrorPropagationWitness ==
    pc = "raised_submit" /\ Len(submitted) >= 1 /\ inflight # {}

\* C16 (as stated) - if the third submission raises, the results of the
\* first two submissions are delivered.
ThirdSubmissionError ==
    (pc = "raised_submit" /\ Len(submitted) = 2) => Len(shown) = 2

\* C16 (amended) - if the third submission raises, do_inference is left at
\* that call: no further submission is made and nothing more is shown; of
\* the first two results only those shown before the failing call (none, one
\* or both) are delivered.
ThirdSubmissionErrorStops ==
    /\ [][((pc = "submit" /\ Len(submitted) = 2 /\ pc' # pc
                /\ submitted' = submitted) =>
              /\ pc' = "raised_submit"
              /\ shown' = shown)]_vars
    /\ [][((pc = "raised_submit" /\ Len(submitted) = 2) =>
              /\ pc' = pc
              /\ shown' = shown
              /\ submitted' = submitted
              /\ Len(shown) <= 2)]_vars

\* The third submission raised when one of the two results had been shown
\* and the other had completed; it is never shown.
ThirdSubmissionErrorStopsWitness ==
    /\ pc = "raised_submit"
    /\ Len(submitted) = 2
    /\ Len(shown) = 1
    /\ has_completed_request

\* C17 - OrderingViolation: a fetch made while the pipeline holds a bogus
\* completion ends in a fatal error; the driver does not carry on.
OrderingViolationRaised ==
    [][((pc \in {"get", "drain_get"} /\ BogusReported /\ pc' # pc
            /\ \E r \in completed_request_results : r.frame = "bogus") =>
           pc' \in Stopped)]_vars

\* C18 (as stated) - Cooperative cancellation: once cancellation has been
\* requested no new submission is issued.
CancellationStopsSubmission ==
    [][(cancelled => submitted' = submitted)]_vars

\* C18 (amended) - do_inference reads no cancellation flag: a pending
\* cancellation request changes nothing, every submission the loop reaches
\* is still issued and the run returns only after submitting and showing all
\* the inputs an uncancelled run does.
CancellationIgnored ==
    /\ [](pc = "done" =>
             /\ Len(submitted) =
                    (IF Len(imagelist) = 0 THEN 0 ELSE Len(imagelist) - 1)
             /\ Len(shown) = Len(submitted))
    /\ [][((cancelled /\ pc = "submit" /\ pc' # pc) =>
              Len(submitted') = Len(submitted) + 1)]_vars

\* Cancellation was requested during the run, and the run has returned after
\* showing its results nevertheless.
CancellationIgnoredWitness ==
    /\ cancelled
    /\ pc = "done"
    /\ Len(shown) >= 3

\* C19 - Final drain progress: after await_all nothing is in flight and the
\* completed set holds exactly the results not yet shown, so every pass of
\* the final loop finds the result for next_frame_id_to_show.
FinalDrainProgress ==
    pc \in {"drain", "drain_get"} =>
        /\ inflight = {}
        /\ has_completed_request <=> HeadReady
        /\ pc = "drain_get" => HeadReady
        /\ Cardinality(completed_request_results) = Outstanding

\* The final loop is in a pass, with results delivered before await_all and
\* others still to deliver.
FinalDrainProgressWitness ==
    /\ pc = "drain_get"
    /\ next_frame_id_to_show >= 1
    /\ Cardinality(completed_request_results) >= 2

\* C20 - No deadlock at the blocking wait: the driver turns to await_any only
\* with a request in flight, it is blocked there only while one is, and the
\* wait returns.
NoDeadlockAtAwait ==
    /\ [][((pc = "ready" /\ pc' = "await") => inflight # {})]_vars
    /\ []((pc = "await" /\ ~await_any_returns) => inflight # {})
    /\ [](pc = "await" => <>(pc # "await"))

\* The driver is blocked in await_any on a full engine.
NoDeadlockAtAwaitWitness ==
    pc = "await" /\ ~await_any_returns /\ Cardinality(inflight) = 2

\* The positions of do_inference from the await_all call on.
FinalPhase == {"await_all", "drain", "drain_get", "done"}

\* C21 - Phase ordering: await_all is called once, after the last
\* submission; from that call on the driver neither submits nor waits in
\* await_any, and the final loop only tests has_completed_request and
\* fetches results.
PhaseOrdering ==
    /\ [][(pc \in FinalPhase) =>
              /\ pc' \in FinalPhase
              /\ submitted' = submitted
              /\ next_frame_id' = next_frame_id
              /\ inflight' \subseteq inflight]_vars
    /\ [][(pc \in FinalPhase \ {"await_all"}) => pc' # "await_all"]_vars
    /\ [][(pc' = "drain" /\ pc # "drain") =>
              pc \in {"await_all", "drain_get"}]_vars

\* The final loop is fetching after await_all returned, several submissions
\* having been made.
PhaseOrderingWitness ==
    pc = "drain_get" /\ Len(submitted) >= 3 /\ Len(shown) >= 1

\* C22 - Only submitted work is delivered: the cursors stay ordered within
\* the image list, and imagelist is never indexed out of range.
CursorRange ==
    /\ 0 <= next_frame_id_to_show
    /\ next_frame_id_to_show <= next_frame_id
    /\ next_frame_id <= Len(imagelist)
    /\ Len(shown) = next_frame_id_to_show
    /\ pc = "submit" => next_frame_id < Len(imagelist)
    /\ pc # "error"

\* The display cursor has caught up with the submission cursor in the middle
\* of a run.
CursorRangeWitness ==
    /\ pc = "submit"
    /\ next_frame_id_to_show = next_frame_id
    /\ next_frame_id >= 2

\* C23 - Reported frame count: the number of frames printed in the summary
\* is the number of frames submitted and displayed in the run.
ReportedFrameCount ==
    pc = "done" =>
        /\ ReportedFrames = Len(submitted)
        /\ ReportedFrames = Len(shown)

\* C24 - BinaryF1.reset restores the initial state: from a reset on, the
\* metric has the counters of a BinaryF1 constructed at that reset and given
\* the same updates; right after the reset they are those set by __init__.
ResetRestoresInit ==
    fresh # NoFresh => metric = fresh.counters

\* A metric that had counted, was reset and has counted again.
ResetRestoresInitWitness ==
    /\ fresh # NoFresh
    /\ fresh.before.correct_true >= 1
    /\ fresh.before.y_pred >= 2
    /\ metric.correct_true >= 1

\* C25 - BinaryF1 counter invariant: for binary labels and predictions
\* 0 <= correct_true <= y_true and correct_true <= y_pred, and the F1 value,
\* when defined, lies in [0, 1].
F1CounterInv ==
    /\ 0 <= metric.correct_true
    /\ metric.correct_true <= metric.y_true
    /\ metric.correct_true <= metric.y_pred
    /\ avg_value(metric).error = "none" =>
           /\ avg_value(metric).f1[2] > 0
           /\ 0 <= avg_value(metric).f1[1]
           /\ avg_value(metric).f1[1] <= avg_value(metric).f1[2]

\* Some true pixels were predicted, some were missed and some predictions
\* were wrong: the F1 value is strictly between 0 and 1.
F1CounterInvWitness ==
    /\ 0 < metric.correct_true
    /\ metric.correct_true < metric.y_true
    /\ metric.correct_true < metric.y_pred
    /\ avg_value(metric).error = "none"

\* C26 - avg_value is well-defined in every state reachable through update
\* and reset calls: it never divides by zero.
AvgValueDefined == avg_value(metric).error = "none"

\* C27 - KitsDataset construction errors: no mask file gives the 'does not
\* contain data' ValueError whatever dataset_type is; with mask files a
\* dataset_type other than "train" and "val" gives the 'choose train or val'
\* ValueError; in both cases dataset, basedir and dataset_type are not set.
KitsConstructionErrors ==
    kits.state # "new" =>
        /\ kits.files = {} => kits.state = "ValueError_no_data"
        /\ (kits.files # {} /\ kits.dataset_type_arg \notin {"train", "val"})
               => kits.state = "ValueError_split"
        /\ kits.state \in {"ValueError_no_data", "ValueError_split"} =>
               /\ kits.attrs \cap {"dataset", "basedir", "dataset_type"} = {}
               /\ kits.dataset = <<>>
               /\ (kits.files = {}
                      \/ kits.dataset_type_arg \notin {"train", "val"})

\* The constructor was given an empty basedir and a wrong dataset_type.
KitsConstructionErrorsWitness ==
    /\ kits.state = "ValueError_no_data"
    /\ kits.dataset_type_arg = "test"

====
